---- MODULE Spec2Model ----
(***************************************************************************)
(* A model of the clox core: the open-addressed hash table (table.c), the  *)
(* interned string pool (object.c) and the single-pass Pratt compiler      *)
(* (the compiler part of table.c).                                          *)
(***************************************************************************)
EXTENDS Integers, Sequences, FiniteSets, TLC

VARIABLES
    heap,      \* the ObjString objects allocated so far: id -> [chars, length, hash, buf]
    buffers,   \* the char arrays allocated so far: id -> [chars, freed]
    objects,   \* vm.objects: the chain of heap objects, newest first
    strings,   \* vm.strings: the interning table
    table,     \* a Table used as a map (the role of vm.globals)
    abs,       \* history: the abstract map the calls on `table` describe
    lastOp,    \* history: the last call, its arguments, result and pre-state
    source,    \* the token stream the scanner hands out
    scanner,   \* the scanner's position in source
    parser,    \* Parser: current, previous, hadError, panicMode
    chunk,     \* the Chunk being compiled: code, lines, constants
    frames,    \* the C call stack of the compiler, innermost call last
    status,    \* "idle", "running", "returned" or "crashed"
    result,    \* the value compile returned
    raised,    \* history: the number of calls of errorAt
    stderr     \* the error messages printed

vmVars == <<heap, buffers, objects, strings>>
tableVars == <<table, abs, lastOp>>
compilerVars == <<source, scanner, parser, chunk, frames, status, result, raised, stderr>>
vars == <<heap, buffers, objects, strings, table, abs, lastOp, source, scanner, parser,
          chunk, frames, status, result, raised, stderr>>

----------------------------------------------------------------------------
(* Bounds of the model.                                                    *)

\* number of distinct ObjString keys used on `table`
NumKeys == 3
\* largest number of capacity doublings after the first allocation of 8
MaxDoublings == 1
\* number of distinct byte sequences handed to the interning calls
NumInputs == 2
\* largest number of ObjStrings allocated by the interning calls
MaxObjects == 3
\* largest number of char arrays allocated by the interning calls and their callers
MaxBuffers == 4
\* the values 0 .. MaxGarbage are tried as the low half of an unset hash field
MaxGarbage == 0
\* longest token stream (before EOF) of the exhaustively enumerated sources
MaxTokens == 4
\* longest expression (in tokens) of the enumerated print statements
MaxExprTokens == 7
\* the long sources hold up to UINT8_MAX + 1 + ExtraConstants constants
ExtraConstants == 1

----------------------------------------------------------------------------
(* Values.  NIL_VAL, BOOL_VAL(true) and two other values.                  *)

NIL_VAL == "nil"
TRUE_VAL == "true"
IS_NIL(v) == v = NIL_VAL
UserValues == {"v1", "v2"}

\* a NULL ObjString*; object ids start at 1
NULL == 0

----------------------------------------------------------------------------
(* 32-bit hashes are kept as two 16-bit halves, so that no intermediate    *)
(* result leaves the range of the checker's integers.                      *)

Half == 65536

RECURSIVE XorBits(_, _, _)
XorBits(a, b, n) ==
    IF n = 0 THEN 0
    ELSE (((a % 2) + (b % 2)) % 2) + 2 * XorBits(a \div 2, b \div 2, n - 1)

\* hash ^= (uint8_t)byte
HashXor(h, byte) == [hi |-> h.hi, lo |-> XorBits(h.lo, byte, 16)]

\* hash *= 16777619  (16777619 = 2^24 + 403), modulo 2^32
HashMul(h) ==
    [hi |-> ((h.lo % 256) * 256 + h.hi * 403 + ((h.lo * 403) \div Half)) % Half,
     lo |-> (h.lo * 403) % Half]

\* 2166136261 = 33052 * 65536 + 40389
FnvOffset == [hi |-> 33052, lo |-> 40389]

RECURSIVE HashLoop(_, _, _)
HashLoop(key, i, hash) ==
    IF i > Len(key) THEN hash
    ELSE HashLoop(key, i + 1, HashMul(HashXor(hash, key[i])))

hashString(key) == HashLoop(key, 1, FnvOffset)

\* hash % capacity on the 32-bit value
HashMod(h, capacity) ==
    ((h.hi % capacity) * (Half % capacity) + (h.lo % capacity)) % capacity

----------------------------------------------------------------------------
(* Table: count, capacity, entries[0 .. capacity-1].                       *)

EmptyEntry == [key |-> NULL, value |-> NIL_VAL]
Tombstone == [key |-> NULL, value |-> TRUE_VAL]

initTable == [count |-> 0, capacity |-> 0, entries |-> <<>>]

IsEmpty(e) == e.key = NULL /\ IS_NIL(e.value)
IsTombstone(e) == e.key = NULL /\ ~IS_NIL(e.value)
IsLive(e) == e.key # NULL

\* a NULL Entry*
NoBucket == -1
\* findEntry never returns when no bucket ends the probe
Diverges == NoBucket

\* findEntryLoop with a tombstone ending the probe like an Empty bucket
RECURSIVE findEntryLoopTombstoneEnds(_, _, _, _, _, _)
findEntryLoopTombstoneEnds(entries, capacity, key, index, tombstone, steps) ==
    IF steps > capacity THEN Diverges
    ELSE LET entry == entries[index] IN
         IF entry.key = NULL THEN index
         ELSE IF entry.key = key
              THEN index
              ELSE findEntryLoopTombstoneEnds(entries, capacity, key,
                                              (index + 1) % capacity,
                                              tombstone, steps + 1)

\* the probe loop of findEntry; H[key] is the key->hash field as read
RECURSIVE findEntryLoop(_, _, _, _, _, _)
findEntryLoop(entries, capacity, key, index, tombstone, steps) ==
    IF steps > capacity THEN Diverges
    ELSE LET entry == entries[index] IN
         IF entry.key = NULL
         THEN IF IS_NIL(entry.value)
              THEN (IF tombstone # NoBucket THEN tombstone ELSE index)
              ELSE findEntryLoop(entries, capacity, key, (index + 1) % capacity,
                                 IF tombstone = NoBucket THEN index ELSE tombstone,
                                 steps + 1)
         ELSE IF entry.key = key
              THEN index
              ELSE findEntryLoop(entries, capacity, key, (index + 1) % capacity,
                                 tombstone, steps + 1)

\* findEntry with the probe ending at the first tombstone it meets, so
\* that a new key is written there without looking further
findEntryStopsAtTombstone(entries, capacity, key, H) ==
    findEntryLoopTombstoneEnds(entries, capacity, key,
                               HashMod(H[key].hash, capacity), NoBucket, 1)

findEntry(entries, capacity, key, H) ==
    findEntryLoop(entries, capacity, key, HashMod(H[key].hash, capacity), NoBucket, 1)

\* tableGet: [found, value]
tableGet(t, key, H) ==
    IF t.count = 0 THEN [found |-> FALSE, value |-> NIL_VAL]
    ELSE LET i == findEntry(t.entries, t.capacity, key, H) IN
         IF t.entries[i].key = NULL
         THEN [found |-> FALSE, value |-> NIL_VAL]
         ELSE [found |-> TRUE, value |-> t.entries[i].value]

\* the re-insertion loop of adjustCapacity, over the old buckets i = 0, 1, ...
RECURSIVE adjustLoop(_, _, _, _, _, _)
adjustLoop(old, i, entries, capacity, count, H) ==
    IF i >= old.capacity THEN [entries |-> entries, count |-> count]
    ELSE LET entry == old.entries[i] IN
         IF entry.key = NULL
         THEN adjustLoop(old, i + 1, entries, capacity, count, H)
         ELSE LET dest == findEntry(entries, capacity, entry.key, H) IN
              adjustLoop(old, i + 1,
                         [entries EXCEPT ![dest] = [key |-> entry.key,
                                                    value |-> entry.value]],
                         capacity, count + 1, H)

\* adjustCapacity without the reset of count (tombstones stay counted)
adjustCapacityKeepsCount(t, capacity, H) ==
    LET r == adjustLoop(t, 0, [i \in 0 .. capacity - 1 |-> EmptyEntry],
                        capacity, 0, H)
    IN [count |-> t.count, capacity |-> capacity, entries |-> r.entries]

adjustCapacity(t, capacity, H) ==
    LET r == adjustLoop(t, 0, [i \in 0 .. capacity - 1 |-> EmptyEntry],
                        capacity, 0, H)
    IN [count |-> r.count, capacity |-> capacity, entries |-> r.entries]

\* GROW_CAPACITY of memory.h
GROW_CAPACITY(capacity) == IF capacity < 8 THEN 8 ELSE capacity * 2

\* table->count + 1 > table->capacity * TABLE_MAX_LOAD, with TABLE_MAX_LOAD = 3/4
\* the load check of tableSet growing an empty table only, so that no
\* number of entries and tombstones forces a rehash
NeedsGrowOnlyWhenEmpty(t) == t.capacity = 0

NeedsGrow(t) == 4 * (t.count + 1) > 3 * t.capacity

\* the two count updates of tableSet for a new key
SetCount(count, isNewKey, wasNil) ==
    LET c1 == IF isNewKey /\ wasNil THEN count + 1 ELSE count
    IN IF isNewKey THEN c1 + 1 ELSE c1

\* isNewKey taking a reused tombstone for a key that was there
IsNewKeyEmptyOnly(entry) == IsEmpty(entry)

\* bool isNewKey = entry->key == NULL
IsNewKey(entry) == entry.key = NULL

\* tableSet: [table, ret, grew, mid]; grew tells whether adjustCapacity ran and
\* mid is the table as adjustCapacity left it
tableSet(t, key, value, H) ==
    LET grew == NeedsGrow(t)
        mid == IF grew THEN adjustCapacity(t, GROW_CAPACITY(t.capacity), H) ELSE t
        i == findEntry(mid.entries, mid.capacity, key, H)
        entry == mid.entries[i]
        isNewKey == IsNewKey(entry)
    IN [table |-> [count |-> SetCount(mid.count, isNewKey, IS_NIL(entry.value)),
                   capacity |-> mid.capacity,
                   entries |-> [mid.entries EXCEPT
                                   ![i] = [key |-> key, value |-> value]]],
        ret |-> isNewKey, grew |-> grew, mid |-> mid]

\* tableDelete clearing the bucket instead of leaving a tombstone
DeletedEntryCleared == EmptyEntry

\* the bucket tableDelete leaves behind
DeletedEntry == Tombstone

\* tableDelete taking the deleted entry out of count
DeleteCountDecremented(count) == count - 1

\* count as tableDelete leaves it: the tombstone stays counted
DeleteCount(count) == count

\* tableDelete: [table, ret]
tableDelete(t, key, H) ==
    IF t.count = 0 THEN [table |-> t, ret |-> FALSE]
    ELSE LET i == findEntry(t.entries, t.capacity, key, H) IN
         IF t.entries[i].key = NULL
         THEN [table |-> t, ret |-> FALSE]
         ELSE [table |-> [t EXCEPT !.entries[i] = DeletedEntry,
                                   !.count = DeleteCount(@)],
               ret |-> TRUE]

\* the probe loop of tableFindString; NULL when absent, Diverges when it never ends
RECURSIVE findStringLoop(_, _, _, _, _, _)
findStringLoop(t, chars, hash, index, steps, H) ==
    IF steps > t.capacity THEN Diverges
    ELSE LET entry == t.entries[index] IN
         IF entry.key = NULL /\ IS_NIL(entry.value) THEN NULL
         ELSE IF /\ entry.key # NULL
                 /\ H[entry.key].length = Len(chars)
                 /\ H[entry.key].hash = hash
                 /\ H[entry.key].chars = chars
              THEN entry.key
              ELSE findStringLoop(t, chars, hash, (index + 1) % t.capacity,
                                  steps + 1, H)

tableFindString(t, chars, hash, H) ==
    IF t.count = 0 THEN NULL
    ELSE findStringLoop(t, chars, hash, HashMod(hash, t.capacity), 1, H)


----------------------------------------------------------------------------
(* The interned string pool of object.c.  The state of the VM that the     *)
(* calls touch is [heap, objects, strings].                                *)

\* allocateObject leaving vm.objects as it was
allocateObjectUnlinked(vm, obj) == [vm EXCEPT !.heap = Append(vm.heap, obj)]

\* allocateObject: the new object is put in front of vm.objects
allocateObject(vm, obj) ==
    [vm EXCEPT !.heap = Append(vm.heap, obj),
               !.objects = <<Len(vm.heap) + 1>> \o vm.objects]

\* what string->hash holds while allocateString runs tableSet: the field is
\* assigned after the call, so the read yields whatever the allocator left
\* there (unset), not the hash passed in
HashAtInsert(hash, unset) == unset

\* a char array of the heap with the bytes chars; freed counts its frees
Buffer(chars) == [chars |-> chars, freed |-> 0]

\* ALLOCATE(char, length + 1) filled with chars: the new array is the last one
ALLOCATE(bufs, chars) == Append(bufs, Buffer(chars))

\* FREE_ARRAY of memory.h
FREE_ARRAY(bufs, buf) == [bufs EXCEPT ![buf].freed = @ + 1]

\* allocateString: [heap, buffers, objects, strings, ret, keyHash]; buf is the
\* char array passed in, which string->chars points to from here on, and
\* keyHash is string->hash as tableSet read it
allocateString(vm, buf, hash, unset) ==
    LET id == Len(vm.heap) + 1
        chars == vm.buffers[buf].chars
        vm1 == allocateObject(vm, [chars |-> chars, length |-> Len(chars),
                                   hash |-> HashAtInsert(hash, unset),
                                   buf |-> buf])
        r == tableSet(vm1.strings, id, NIL_VAL, vm1.heap)
    IN [heap |-> [vm1.heap EXCEPT ![id].hash = hash],
        buffers |-> vm1.buffers,
        objects |-> vm1.objects,
        strings |-> r.table,
        ret |-> id,
        keyHash |-> vm1.heap[id].hash]

\* copyString: [heap, buffers, objects, strings, ret, hit, keyHash]
copyString(vm, chars, unset) ==
    LET hash == hashString(chars)
        interned == tableFindString(vm.strings, chars, hash, vm.heap)
    IN IF interned # NULL
       THEN [heap |-> vm.heap, buffers |-> vm.buffers, objects |-> vm.objects,
             strings |-> vm.strings, ret |-> interned, hit |-> TRUE,
             keyHash |-> vm.heap[interned].hash]
       ELSE LET heapChars == Len(vm.buffers) + 1
                a == allocateString([vm EXCEPT !.buffers = ALLOCATE(@, chars)],
                                    heapChars, hash, unset)
            IN [heap |-> a.heap, buffers |-> a.buffers, objects |-> a.objects,
                strings |-> a.strings, ret |-> a.ret, hit |-> FALSE,
             keyHash |-> a.keyHash]

\* takeString keeping the caller's array on a hit
takeStringKeepsBuffer(vm, buf, unset) ==
    LET chars == vm.buffers[buf].chars
        hash == hashString(chars)
        interned == tableFindString(vm.strings, chars, hash, vm.heap)
    IN IF interned # NULL
       THEN [heap |-> vm.heap, buffers |-> vm.buffers, objects |-> vm.objects,
             strings |-> vm.strings, ret |-> interned, hit |-> TRUE,
             keyHash |-> vm.heap[interned].hash]
       ELSE LET a == allocateString(vm, buf, hash, unset) IN
            [heap |-> a.heap, buffers |-> a.buffers, objects |-> a.objects,
             strings |-> a.strings, ret |-> a.ret, hit |-> FALSE,
             keyHash |-> a.keyHash]

\* takeString: as copyString, but buf is the caller's array: the String takes
\* it on a miss and it is freed on a hit
takeString(vm, buf, unset) ==
    LET chars == vm.buffers[buf].chars
        hash == hashString(chars)
        interned == tableFindString(vm.strings, chars, hash, vm.heap)
    IN IF interned # NULL
       THEN [heap |-> vm.heap, buffers |-> FREE_ARRAY(vm.buffers, buf),
             objects |-> vm.objects, strings |-> vm.strings,
             ret |-> interned, hit |-> TRUE, keyHash |-> vm.heap[interned].hash]
       ELSE LET a == allocateString(vm, buf, hash, unset) IN
            [heap |-> a.heap, buffers |-> a.buffers, objects |-> a.objects,
             strings |-> a.strings, ret |-> a.ret, hit |-> FALSE,
             keyHash |-> a.keyHash]

\* the VM state the interning calls work on
VM == [heap |-> heap, buffers |-> buffers, objects |-> objects, strings |-> strings]

----------------------------------------------------------------------------
(* The compiler: tokens, the Parser, the Chunk and the rule table.         *)

TokenTypes ==
    {"TOKEN_LEFT_PAREN", "TOKEN_RIGHT_PAREN", "TOKEN_LEFT_BRACE",
     "TOKEN_RIGHT_BRACE", "TOKEN_COMMA", "TOKEN_DOT", "TOKEN_MINUS",
     "TOKEN_PLUS", "TOKEN_SEMICOLON", "TOKEN_SLASH", "TOKEN_STAR",
     "TOKEN_BANG", "TOKEN_BANG_EQUAL", "TOKEN_EQUAL", "TOKEN_EQUAL_EQUAL",
     "TOKEN_GREATER", "TOKEN_GREATER_EQUAL", "TOKEN_LESS", "TOKEN_LESS_EQUAL",
     "TOKEN_IDENTIFIER", "TOKEN_STRING", "TOKEN_NUMBER", "TOKEN_AND",
     "TOKEN_CLASS", "TOKEN_ELSE", "TOKEN_FALSE", "TOKEN_FOR", "TOKEN_FUN",
     "TOKEN_IF", "TOKEN_NIL", "TOKEN_OR", "TOKEN_PRINT", "TOKEN_RETURN",
     "TOKEN_SUPER", "TOKEN_THIS", "TOKEN_TRUE", "TOKEN_VAR", "TOKEN_WHILE",
     "TOKEN_ERROR", "TOKEN_EOF"}

\* a Token: its type, what its lexeme denotes (the number of a NUMBER, the
\* bytes between the quotes of a STRING) and its line
Token(type, number, chars, line) ==
    [type |-> type, number |-> number, chars |-> chars, line |-> line]

\* the zero-initialised Token of the global Parser
ZeroToken == Token("TOKEN_LEFT_PAREN", 0, <<>>, 0)

PREC_NONE == 0
PREC_ASSIGNMENT == 1
PREC_OR == 2
PREC_AND == 3
PREC_EQUALITY == 4
PREC_COMPARISON == 5
PREC_TERM == 6
PREC_FACTOR == 7
PREC_UNARY == 8
PREC_CALL == 9
PREC_PRIMARY == 10

OP_NEGATE == 0
OP_CONSTANT == 1
OP_NIL == 2
OP_TRUE == 3
OP_FALSE == 4
OP_EQUAL == 5
OP_GREATER == 6
OP_LESS == 7
OP_ADD == 8
OP_SUBTRACT == 9
OP_MULTIPLY == 10
OP_DIVIDE == 11
OP_NOT == 12
OP_RETURN == 13
\* used by printStatement; the OpCode enum of chunk.h has no entry for it
OP_PRINT == 14

UINT8_MAX == 255

NUMBER_VAL(n) == [type |-> "VAL_NUMBER", number |-> n, obj |-> NULL]
OBJ_VAL(o) == [type |-> "VAL_OBJ", number |-> 0, obj |-> o]

ParseRule(prefix, infix, precedence) ==
    [prefix |-> prefix, infix |-> infix, precedence |-> precedence]

rules ==
    [t \in TokenTypes |->
        CASE t = "TOKEN_LEFT_PAREN"    -> ParseRule("grouping", "NULL", PREC_NONE)
          [] t = "TOKEN_MINUS"         -> ParseRule("unary", "binary", PREC_TERM)
          [] t = "TOKEN_PLUS"          -> ParseRule("NULL", "binary", PREC_TERM)
          [] t = "TOKEN_SLASH"         -> ParseRule("NULL", "binary", PREC_FACTOR)
          [] t = "TOKEN_STAR"          -> ParseRule("NULL", "binary", PREC_FACTOR)
          [] t = "TOKEN_BANG"          -> ParseRule("unary", "NULL", PREC_NONE)
          [] t = "TOKEN_BANG_EQUAL"    -> ParseRule("NULL", "binary", PREC_EQUALITY)
          [] t = "TOKEN_EQUAL_EQUAL"   -> ParseRule("NULL", "binary", PREC_EQUALITY)
          [] t = "TOKEN_GREATER"       -> ParseRule("NULL", "binary", PREC_COMPARISON)
          [] t = "TOKEN_GREATER_EQUAL" -> ParseRule("NULL", "binary", PREC_COMPARISON)
          [] t = "TOKEN_LESS"          -> ParseRule("NULL", "binary", PREC_COMPARISON)
          [] t = "TOKEN_LESS_EQUAL"    -> ParseRule("NULL", "binary", PREC_COMPARISON)
          [] t = "TOKEN_STRING"        -> ParseRule("string", "NULL", PREC_NONE)
          [] t = "TOKEN_NUMBER"        -> ParseRule("number", "NULL", PREC_NONE)
          [] t = "TOKEN_FALSE"         -> ParseRule("literal", "NULL", PREC_NONE)
          [] t = "TOKEN_NIL"           -> ParseRule("literal", "NULL", PREC_NONE)
          [] t = "TOKEN_TRUE"          -> ParseRule("literal", "NULL", PREC_NONE)
          [] OTHER                     -> ParseRule("NULL", "NULL", PREC_NONE)]

getRule(type) == rules[type]

initChunk == [code |-> <<>>, lines |-> <<>>, constants |-> <<>>]

\* the compiler's state as the C functions below pass it on: cs.src is the
\* scanner's source, cs.vm the VM that string() interns into
CS ==
    [src |-> source, scanner |-> scanner, parser |-> parser, chunk |-> chunk,
     raised |-> raised, stderr |-> stderr, vm |-> VM]

\* scanToken: the next token, or TOKEN_EOF for ever once the source is used up
scanToken(cs) ==
    IF cs.scanner <= Len(cs.src)
    THEN [token |-> cs.src[cs.scanner], scanner |-> cs.scanner + 1]
    ELSE [token |-> Token("TOKEN_EOF", 0, <<>>, Len(cs.src) + 1),
          scanner |-> cs.scanner]

\* errorAt leaving hadError as it was
ErrorFlagUnset(hadError) == hadError

\* what errorAt does to hadError once the message is printed
ErrorFlag(hadError) == TRUE

\* errorAt without the test of panicMode: every error is printed
errorAtAlwaysReports(cs, token, message) ==
    [cs EXCEPT !.raised = @ + 1,
               !.parser.panicMode = TRUE,
               !.stderr = Append(@, [line |-> token.line, message |-> message]),
               !.parser.hadError = ErrorFlag(@)]

\* errorAt(token, message)
errorAt(cs, token, message) ==
    LET c == [cs EXCEPT !.raised = @ + 1] IN
    IF cs.parser.panicMode THEN c
    ELSE [c EXCEPT !.parser.panicMode = TRUE,
                   !.stderr = Append(@, [line |-> token.line, message |-> message]),
                   !.parser.hadError = ErrorFlag(@)]

error(cs, message) == errorAt(cs, cs.parser.previous, message)
errorAtCurrent(cs, message) == errorAt(cs, cs.parser.current, message)

\* the for(;;) of advance: ERROR tokens are reported and skipped
RECURSIVE advanceLoop(_)
advanceLoop(cs) ==
    LET t == scanToken(cs)
        c == [cs EXCEPT !.parser.current = t.token, !.scanner = t.scanner]
    IN IF t.token.type # "TOKEN_ERROR" THEN c
       ELSE advanceLoop(errorAtCurrent(c, "scan error"))

advance(cs) == advanceLoop([cs EXCEPT !.parser.previous = cs.parser.current])

check(cs, type) == cs.parser.current.type = type

consume(cs, type, message) ==
    IF cs.parser.current.type = type THEN advance(cs)
    ELSE errorAtCurrent(cs, message)

\* writeChunk of chunk.c
writeChunk(ch, byte, line) ==
    [ch EXCEPT !.code = Append(@, byte), !.lines = Append(@, line)]

\* addConstant of chunk.c: [chunk, index]
addConstant(ch, value) ==
    [chunk |-> [ch EXCEPT !.constants = Append(@, value)],
     index |-> Len(ch.constants)]

\* emitByte taking the line of the token about to be consumed
EmitLineOfCurrent(cs) == cs.parser.current.line

\* the line emitByte passes to writeChunk
EmitLine(cs) == cs.parser.previous.line

emitByte(cs, byte) ==
    [cs EXCEPT !.chunk = writeChunk(@, byte, EmitLine(cs))]

emitBytes(cs, byte1, byte2) == emitByte(emitByte(cs, byte1), byte2)

emitReturn(cs) == emitByte(cs, OP_RETURN)

\* makeConstant accepting every index
TooManyConstantsNever(constant) == FALSE

\* the guard of makeConstant
TooManyConstants(constant) == constant > UINT8_MAX

\* makeConstant: [cs, byte]
makeConstant(cs, value) ==
    LET a == addConstant(cs.chunk, value)
        c == [cs EXCEPT !.chunk = a.chunk]
    IN IF TooManyConstants(a.index)
       THEN [cs |-> error(c, "Too many constants in one chunk."), byte |-> 0]
       ELSE [cs |-> c, byte |-> a.index % 256]

emitConstant(cs, value) ==
    LET m == makeConstant(cs, value) IN emitBytes(m.cs, OP_CONSTANT, m.byte)

\* endCompiler without emitReturn
endCompilerEmitsNothing(cs) == cs

endCompiler(cs) == emitReturn(cs)

\* printStatement writing OP_PRINT before it looks for the ';'
printStatementTailEmitsFirst(cs) ==
    consume(emitByte(cs, OP_PRINT), "TOKEN_SEMICOLON", "Expect ';' after value.")

\* printStatement after expression(): consume the ';', then emit OP_PRINT
printStatementTail(cs) ==
    emitByte(consume(cs, "TOKEN_SEMICOLON", "Expect ';' after value."), OP_PRINT)

\* the bytes binary() emits for an operator
BinaryBytes(operatorType) ==
    CASE operatorType = "TOKEN_BANG_EQUAL"    -> <<OP_EQUAL, OP_NOT>>
      [] operatorType = "TOKEN_EQUAL_EQUAL"   -> <<OP_EQUAL>>
      [] operatorType = "TOKEN_GREATER"       -> <<OP_GREATER>>
      [] operatorType = "TOKEN_GREATER_EQUAL" -> <<OP_LESS, OP_NOT>>
      [] operatorType = "TOKEN_LESS"          -> <<OP_LESS>>
      [] operatorType = "TOKEN_LESS_EQUAL"    -> <<OP_GREATER, OP_NOT>>
      [] operatorType = "TOKEN_PLUS"          -> <<OP_ADD>>
      [] operatorType = "TOKEN_MINUS"         -> <<OP_SUBTRACT>>
      [] operatorType = "TOKEN_STAR"          -> <<OP_MULTIPLY>>
      [] operatorType = "TOKEN_SLASH"         -> <<OP_DIVIDE>>
      [] OTHER                                -> <<>>

\* the bytes unary() emits for an operator
UnaryBytes(operatorType) ==
    CASE operatorType = "TOKEN_BANG"  -> <<OP_NOT>>
      [] operatorType = "TOKEN_MINUS" -> <<OP_NEGATE>>
      [] OTHER                        -> <<>>

\* the byte literal() emits
LiteralBytes(type) ==
    CASE type = "TOKEN_FALSE" -> <<OP_FALSE>>
      [] type = "TOKEN_NIL"   -> <<OP_NIL>>
      [] type = "TOKEN_TRUE"  -> <<OP_TRUE>>
      [] OTHER                -> <<>>

RECURSIVE emitAll(_, _)
emitAll(cs, bytes) ==
    IF bytes = <<>> THEN cs ELSE emitAll(emitByte(cs, Head(bytes)), Tail(bytes))

\* the state of the compiler before compile is called
CompilerIdle ==
    /\ scanner = 1
    /\ parser = [current |-> ZeroToken, previous |-> ZeroToken,
                 hadError |-> FALSE, panicMode |-> FALSE]
    /\ chunk = initChunk
    /\ frames = <<>>
    /\ status = "idle"
    /\ result = FALSE
    /\ raised = 0
    /\ stderr = <<>>

----------------------------------------------------------------------------
(* The table used as a map, over keys that are fully constructed strings.  *)

\* the bytes of the strings used as keys: "a", "ba", "b", "bb", "ac", "c"
KeyChars == << <<97>>, <<98, 97>>, <<98>>, <<98, 98>>, <<97, 99>>, <<99>> >>

Keys == 1 .. NumKeys

\* the ObjString with the bytes chars in the array buf
ObjStringOf(chars, buf) ==
    [chars |-> chars, length |-> Len(chars), hash |-> hashString(chars), buf |-> buf]

KeyHeap == [id \in Keys |-> ObjStringOf(KeyChars[id], id)]

MaxCapacity == 8 * (2 ^ MaxDoublings)

Absent == "absent"

\* lastOp: old and mid are the table before and after adjustCapacity when the
\* call ran it (grew), and initTable otherwise; keyHash is key->hash as the
\* call read it
NoOp ==
    [op |-> "none", key |-> NULL, value |-> NIL_VAL, chars |-> <<>>,
     ret |-> FALSE, grew |-> FALSE, old |-> initTable, mid |-> initTable,
     keyHash |-> FnvOffset]

TableInit ==
    /\ heap = KeyHeap
    /\ buffers = [id \in Keys |-> Buffer(KeyChars[id])]
    /\ objects = [i \in 1 .. NumKeys |-> NumKeys + 1 - i]
    /\ strings = initTable
    /\ table = initTable
    /\ abs = [k \in Keys |-> Absent]
    /\ lastOp = NoOp
    /\ CompilerIdle
    /\ source = <<>>

TableSetOp ==
    \E k \in Keys, v \in UserValues :
        LET r == tableSet(table, k, v, heap) IN
        /\ r.table.capacity <= MaxCapacity
        /\ table' = r.table
        /\ abs' = [abs EXCEPT ![k] = v]
        /\ lastOp' = [op |-> "set", key |-> k, value |-> v,
                      chars |-> heap[k].chars, ret |-> r.ret, grew |-> r.grew,
                      old |-> IF r.grew THEN table ELSE initTable,
                      mid |-> IF r.grew THEN r.mid ELSE initTable,
                      keyHash |-> heap[k].hash]
        /\ UNCHANGED vmVars
        /\ UNCHANGED compilerVars

TableDeleteOp ==
    \E k \in Keys :
        LET r == tableDelete(table, k, heap) IN
        /\ table' = r.table
        /\ abs' = [abs EXCEPT ![k] = Absent]
        /\ lastOp' = [op |-> "delete", key |-> k, value |-> NIL_VAL,
                      chars |-> heap[k].chars, ret |-> r.ret, grew |-> FALSE,
                      old |-> initTable, mid |-> initTable,
                      keyHash |-> heap[k].hash]
        /\ UNCHANGED vmVars
        /\ UNCHANGED compilerVars

TableNext == TableSetOp \/ TableDeleteOp

TableSpec == TableInit /\ [][TableNext]_vars


----------------------------------------------------------------------------
(* Properties of the table.                                                *)

Buckets(t) == 0 .. t.capacity - 1
LiveBuckets(t) == {i \in Buckets(t) : IsLive(t.entries[i])}
TombstoneBuckets(t) == {i \in Buckets(t) : IsTombstone(t.entries[i])}
EmptyBuckets(t) == {i \in Buckets(t) : IsEmpty(t.entries[i])}
LivePairs(t) == {<<t.entries[i].key, t.entries[i].value>> : i \in LiveBuckets(t)}

\* C3: the table refines the abstract map: tableGet(table, k) finds v exactly
\* when the most recent set/delete on k was set(k, v), and finds nothing
\* otherwise, whatever resizes and tombstones lie in between.
TableRefinesMap ==
    \A k \in Keys :
        LET r == tableGet(table, k, heap) IN
        IF abs[k] = Absent THEN ~r.found
        ELSE r.found /\ r.value = abs[k]

\* C3 witness: after a populated table was rehashed into a larger array, with
\* a tombstone in the table, a deleted key and a key that was just inserted
\* anew and is retrievable.
TableRefinesMapWitness ==
    /\ table.capacity > 8
    /\ TombstoneBuckets(table) # {}
    /\ \E k \in Keys : abs[k] = Absent
    /\ lastOp.op = "set" /\ lastOp.ret
    /\ tableGet(table, lastOp.key, heap) = [found |-> TRUE, value |-> lastOp.value]

\* C4: count equals the number of Live buckets plus the number of Tombstone
\* buckets.
CountIsLivePlusTombstones ==
    table.count = Cardinality(LiveBuckets(table)) + Cardinality(TombstoneBuckets(table))

\* C5: with capacity > 0 the load factor stays at most 0.75:
\* 4 * count <= 3 * capacity.
LoadFactorBound ==
    table.capacity > 0 => 4 * table.count <= 3 * table.capacity

\* the buckets the probe for bucket i's key visits before it gets to i
ProbePrefix(t, i, H) ==
    LET home == HashMod(H[t.entries[i].key].hash, t.capacity)
        dist == (i + t.capacity - home) % t.capacity
    IN {(home + d) % t.capacity : d \in 0 .. dist - 1}

\* C6: count <= capacity, and the probe from each Live key's home bucket gets
\* to the key's bucket without meeting an Empty bucket (tombstones on the way
\* do not end it).
ProbeChainIntact ==
    /\ table.count <= table.capacity
    /\ \A i \in LiveBuckets(table) :
           /\ \A j \in ProbePrefix(table, i, heap) : ~IsEmpty(table.entries[j])
           /\ findEntry(table.entries, table.capacity, table.entries[i].key, heap) = i

\* C6 witness: a Live key whose probe passes over a tombstone.
ProbeChainIntactWitness ==
    \E i \in LiveBuckets(table) :
        \E j \in ProbePrefix(table, i, heap) : IsTombstone(table.entries[j])

\* C7: adjustCapacity keeps the set of Live (key, value) pairs, leaves no
\* Tombstone in the new array and sets count to the number of Live entries.
ResizePreservesMapping ==
    lastOp.grew =>
        /\ LivePairs(lastOp.mid) = LivePairs(lastOp.old)
        /\ Cardinality(LiveBuckets(lastOp.mid)) = Cardinality(LiveBuckets(lastOp.old))
        /\ TombstoneBuckets(lastOp.mid) = {}
        /\ lastOp.mid.count = Cardinality(LiveBuckets(lastOp.mid))

\* C7 witness: a resize of a table that held Live entries and tombstones.
ResizePreservesMappingWitness ==
    /\ lastOp.grew
    /\ TombstoneBuckets(lastOp.old) # {}
    /\ Cardinality(LiveBuckets(lastOp.old)) >= 2
    /\ lastOp.mid.count < lastOp.old.count


----------------------------------------------------------------------------
(* The interning calls on a fresh VM.                                      *)

\* the byte sequences handed to copyString / takeString
InternInputs == {KeyChars[k] : k \in 1 .. NumInputs}

\* the values an unset 32-bit hash field may hold: anything, the right hash
\* included
UnsetHashes(chars) ==
    {[hi |-> 0, lo |-> x] : x \in 0 .. MaxGarbage} \cup {hashString(chars)}

InternInit ==
    /\ heap = <<>>
    /\ buffers = <<>>
    /\ objects = <<>>
    /\ strings = initTable
    /\ table = initTable
    /\ abs = [k \in Keys |-> Absent]
    /\ lastOp = NoOp
    /\ CompilerIdle
    /\ source = <<>>

InternStep(op, r, chars) ==
    /\ Len(r.heap) <= MaxObjects
    /\ Len(r.buffers) <= MaxBuffers
    /\ r.strings.capacity <= MaxCapacity
    /\ heap' = r.heap
    /\ buffers' = r.buffers
    /\ objects' = r.objects
    /\ strings' = r.strings
    /\ lastOp' = [op |-> op, key |-> r.ret, value |-> NIL_VAL, chars |-> chars,
                  ret |-> r.hit, grew |-> strings'.capacity # strings.capacity,
                  old |-> initTable, mid |-> initTable, keyHash |-> r.keyHash]
    /\ UNCHANGED <<table, abs>>
    /\ UNCHANGED compilerVars

CopyStringOp ==
    \E chars \in InternInputs :
        \E unset \in UnsetHashes(chars) :
            InternStep("copyString", copyString(VM, chars, unset), chars)

TakeStringOp ==
    \E chars \in InternInputs :
        \E unset \in UnsetHashes(chars) :
            LET caller == [VM EXCEPT !.buffers = ALLOCATE(@, chars)] IN
            InternStep("takeString", takeString(caller, Len(buffers) + 1, unset), chars)

InternNext == CopyStringOp \/ TakeStringOp

InternSpec == InternInit /\ [][InternNext]_vars

\* the strings held as keys of vm.strings
InternedKeys == {strings.entries[i].key : i \in LiveBuckets(strings)}

\* C1: copyString / takeString return the same reference exactly for equal
\* byte sequences: no two String objects have the same content, and
\* vm.strings holds no content in two buckets.
OneStringPerContent ==
    /\ \A s1, s2 \in DOMAIN heap : heap[s1].chars = heap[s2].chars => s1 = s2
    /\ \A i, j \in LiveBuckets(strings) :
           heap[strings.entries[i].key].chars = heap[strings.entries[j].key].chars
               => i = j
    /\ lastOp.op \in {"copyString", "takeString"} => heap[lastOp.key].chars = lastOp.chars

\* C2: for every interned string s, tableFindString on vm.strings with s's
\* chars, length and hash returns s.
InternedStringFound ==
    \A s \in DOMAIN heap :
        tableFindString(strings, heap[s].chars, heap[s].hash, heap) = s


----------------------------------------------------------------------------
(* compile as a machine: one frame per active C call, one action per       *)
(* function body or per part of a body between two calls.                   *)

Frame(fn, pc, prec, op) == [fn |-> fn, pc |-> pc, prec |-> prec, op |-> op]

Top == frames[Len(frames)]
Pop == SubSeq(frames, 1, Len(frames) - 1)
Running(fn) == status = "running" /\ frames # <<>> /\ Top.fn = fn
SetTopPc(pc) == [frames EXCEPT ![Len(frames)].pc = pc]

\* a call of parsePrecedence(precedence)
CallParsePrecedence(precedence) == Frame("parsePrecedence", "entry", precedence, "")

\* the variables a C function leaves as cs
Commit(cs) ==
    /\ scanner' = cs.scanner
    /\ parser' = cs.parser
    /\ chunk' = cs.chunk
    /\ raised' = cs.raised
    /\ stderr' = cs.stderr
    /\ heap' = cs.vm.heap
    /\ buffers' = cs.vm.buffers
    /\ objects' = cs.vm.objects
    /\ strings' = cs.vm.strings
    /\ UNCHANGED <<source, table, abs, lastOp>>

\* compile, up to its loop
Compile ==
    /\ status = "idle"
    /\ LET c0 == [CS EXCEPT !.scanner = 1,
                            !.parser.hadError = FALSE,
                            !.parser.panicMode = FALSE]
       IN Commit(advance(c0))
    /\ frames' = <<Frame("compile", "loop", PREC_NONE, "")>>
    /\ status' = "running"
    /\ UNCHANGED result

\* while (!match(TOKEN_EOF)) fails: endCompiler and return
CompileReturn ==
    /\ Running("compile")
    /\ check(CS, "TOKEN_EOF")
    /\ LET c == endCompiler(advance(CS)) IN
       /\ Commit(c)
       /\ result' = ~c.parser.hadError
    /\ frames' = <<>>
    /\ status' = "returned"

\* one iteration of the loop: declaration() -> statement(); a print statement
\* goes on into printStatement() and expression()
Declaration ==
    /\ Running("compile")
    /\ ~check(CS, "TOKEN_EOF")
    /\ IF check(CS, "TOKEN_PRINT")
       THEN /\ Commit(advance(CS))
            /\ frames' = frames \o <<Frame("printStatement", "", PREC_NONE, ""),
                                     CallParsePrecedence(PREC_ASSIGNMENT)>>
       ELSE /\ Commit(CS)
            /\ frames' = frames
    /\ UNCHANGED <<status, result>>

\* printStatement after expression(): consume the ';' and emit OP_PRINT
PrintStatementEnd ==
    /\ Running("printStatement")
    /\ Commit(printStatementTail(CS))
    /\ frames' = Pop
    /\ UNCHANGED <<status, result>>

\* parsePrecedence: advance and look up the prefix rule
ParsePrecedence ==
    /\ Running("parsePrecedence") /\ Top.pc = "entry"
    /\ LET c == advance(CS) IN
       IF getRule(c.parser.previous.type).prefix = "NULL"
       THEN /\ Commit(error(c, "Expect expression."))
            /\ frames' = Pop
       ELSE /\ Commit(c)
            /\ frames' = SetTopPc("prefix")
    /\ UNCHANGED <<status, result>>

PrefixIs(fn) ==
    /\ Running("parsePrecedence") /\ Top.pc = "prefix"
    /\ getRule(parser.previous.type).prefix = fn

number ==
    /\ PrefixIs("number")
    /\ Commit(emitConstant(CS, NUMBER_VAL(parser.previous.number)))
    /\ frames' = SetTopPc("loop")
    /\ UNCHANGED <<status, result>>

literal ==
    /\ PrefixIs("literal")
    /\ Commit(emitAll(CS, LiteralBytes(parser.previous.type)))
    /\ frames' = SetTopPc("loop")
    /\ UNCHANGED <<status, result>>

string ==
    /\ PrefixIs("string")
    /\ \E unset \in UnsetHashes(parser.previous.chars) :
           LET r == copyString(VM, parser.previous.chars, unset)
               c == [CS EXCEPT !.vm = [heap |-> r.heap, buffers |-> r.buffers,
                                       objects |-> r.objects,
                                       strings |-> r.strings]]
           IN Commit(emitConstant(c, OBJ_VAL(r.ret)))
    /\ frames' = SetTopPc("loop")
    /\ UNCHANGED <<status, result>>

\* grouping up to its call of expression()
grouping ==
    /\ PrefixIs("grouping")
    /\ Commit(CS)
    /\ frames' = SetTopPc("loop") \o <<Frame("grouping", "", PREC_NONE, ""),
                                       CallParsePrecedence(PREC_ASSIGNMENT)>>
    /\ UNCHANGED <<status, result>>

\* grouping after expression(): consume the ')'
GroupingEnd ==
    /\ Running("grouping")
    /\ Commit(consume(CS, "TOKEN_RIGHT_PAREN", "Expect ')' after expression."))
    /\ frames' = Pop
    /\ UNCHANGED <<status, result>>

\* unary up to its call of parsePrecedence(PREC_UNARY)
unary ==
    /\ PrefixIs("unary")
    /\ Commit(CS)
    /\ frames' = SetTopPc("loop") \o
                 <<Frame("unary", "", PREC_NONE, parser.previous.type),
                   CallParsePrecedence(PREC_UNARY)>>
    /\ UNCHANGED <<status, result>>

\* unary after the operand: emit the operator
UnaryEnd ==
    /\ Running("unary")
    /\ Commit(emitAll(CS, UnaryBytes(Top.op)))
    /\ frames' = Pop
    /\ UNCHANGED <<status, result>>

\* binary() compiling its right operand at the operator's own precedence
RightOperandSamePrecedence(rule) == rule.precedence

\* binary() compiling its right operand at PREC_NONE
RightOperandNoPrecedence(rule) == PREC_NONE

\* the precedence binary() compiles its right operand at
RightOperandPrecedence(rule) == rule.precedence + 1

\* the while loop of parsePrecedence: test, advance, call the infix rule;
\* binary() runs up to its call of parsePrecedence.  Calling a NULL infix
\* rule crashes.
ParsePrecedenceLoop ==
    /\ Running("parsePrecedence") /\ Top.pc = "loop"
    /\ IF Top.prec <= getRule(parser.current.type).precedence
       THEN LET c == advance(CS)
                operatorType == c.parser.previous.type
                rule == getRule(operatorType)
            IN /\ Commit(c)
               /\ IF rule.infix = "binary"
                  THEN /\ frames' = frames \o
                            <<Frame("binary", "", PREC_NONE, operatorType),
                              CallParsePrecedence(RightOperandPrecedence(rule))>>
                       /\ status' = status
                  ELSE /\ frames' = frames
                       /\ status' = "crashed"
       ELSE /\ Commit(CS)
            /\ frames' = Pop
            /\ status' = status
    /\ UNCHANGED result

\* binary after the right operand: emit the operator
BinaryEnd ==
    /\ Running("binary")
    /\ Commit(emitAll(CS, BinaryBytes(Top.op)))
    /\ frames' = Pop
    /\ UNCHANGED <<status, result>>

CompileNext ==
    \/ Compile
    \/ CompileReturn
    \/ Declaration
    \/ PrintStatementEnd
    \/ ParsePrecedence
    \/ number
    \/ literal
    \/ string
    \/ grouping
    \/ GroupingEnd
    \/ unary
    \/ UnaryEnd
    \/ ParsePrecedenceLoop
    \/ BinaryEnd

----------------------------------------------------------------------------
(* The sources compile is run on.                                          *)

\* token i of a stream is on line i and a NUMBER token denotes 1
TokenAt(type, i) == Token(type, IF type = "TOKEN_NUMBER" THEN 1 ELSE 0, <<>>, i)

Stream(types) == [i \in 1 .. Len(types) |-> TokenAt(types[i], i)]

ShortTypes ==
    {"TOKEN_PRINT", "TOKEN_NUMBER", "TOKEN_MINUS", "TOKEN_SEMICOLON",
     "TOKEN_LEFT_PAREN", "TOKEN_RIGHT_PAREN", "TOKEN_ERROR"}

\* every stream of at most MaxTokens tokens over ShortTypes
ShortSources ==
    UNION {{Stream(types) : types \in [1 .. n -> ShortTypes]} : n \in 0 .. MaxTokens}

ExprAtoms == {"TOKEN_NUMBER"}
ExprUnary == {"TOKEN_BANG", "TOKEN_MINUS"}
ExprBinary == {"TOKEN_MINUS", "TOKEN_STAR", "TOKEN_LESS_EQUAL", "TOKEN_EQUAL_EQUAL"}

\* the expressions of exactly n tokens, as sequences of token types
RECURSIVE Exprs(_)
Exprs(n) ==
    IF n <= 0 THEN {}
    ELSE (IF n = 1 THEN {<<a>> : a \in ExprAtoms} ELSE {})
         \cup {<<u>> \o e : u \in ExprUnary, e \in Exprs(n - 1)}
         \cup {<<"TOKEN_LEFT_PAREN">> \o e \o <<"TOKEN_RIGHT_PAREN">> : e \in Exprs(n - 2)}
         \cup UNION {{l \o <<b>> \o r : b \in ExprBinary, l \in Exprs(i),
                                        r \in Exprs(n - 1 - i)} : i \in 1 .. n - 2}

\* print <expression> ; for every expression of at most MaxExprTokens tokens
PrintSources ==
    UNION {{Stream(<<"TOKEN_PRINT">> \o e \o <<"TOKEN_SEMICOLON">>) : e \in Exprs(n)}
           : n \in 1 .. MaxExprTokens}

Num(n, line) == Token("TOKEN_NUMBER", n, <<>>, line)
Tk(type, line) == Token(type, 0, <<>>, line)

\* print 1 + 2 * 3;
SourceArithmetic ==
    <<Tk("TOKEN_PRINT", 1), Num(1, 1), Tk("TOKEN_PLUS", 1), Num(2, 1),
      Tk("TOKEN_STAR", 1), Num(3, 1), Tk("TOKEN_SEMICOLON", 1)>>

\* print 10 - 3 - 2;
SourceLeftAssoc ==
    <<Tk("TOKEN_PRINT", 1), Num(10, 1), Tk("TOKEN_MINUS", 1), Num(3, 1),
      Tk("TOKEN_MINUS", 1), Num(2, 1), Tk("TOKEN_SEMICOLON", 1)>>

\* print !nil;
SourceNotNil ==
    <<Tk("TOKEN_PRINT", 1), Tk("TOKEN_BANG", 1), Tk("TOKEN_NIL", 1),
      Tk("TOKEN_SEMICOLON", 1)>>

\* print "a" == 1;
SourceStringEqual ==
    <<Tk("TOKEN_PRINT", 1), Token("TOKEN_STRING", 0, <<97>>, 1),
      Tk("TOKEN_EQUAL_EQUAL", 1), Num(1, 1), Tk("TOKEN_SEMICOLON", 1)>>

Scenarios == {SourceArithmetic, SourceLeftAssoc, SourceNotNil, SourceStringEqual}

\* print 1 t 1 ;  and  print 1 * 1 t 1 ;  for every token type t the
\* scanner can put in the middle of a source: t is the current token when
\* parsePrecedence tests its loop condition
InfixSources ==
    {Stream(<<"TOKEN_PRINT", "TOKEN_NUMBER">> \o left
            \o <<t, "TOKEN_NUMBER", "TOKEN_SEMICOLON">>) :
        left \in {<<>>, <<"TOKEN_STAR", "TOKEN_NUMBER">>},
        t \in TokenTypes \ {"TOKEN_EOF"}}

Sources == ShortSources \cup PrintSources \cup Scenarios \cup InfixSources

\* n statements  print 1 ;
ManyPrints(n) ==
    Stream([i \in 1 .. 3 * n |->
               CASE i % 3 = 1 -> "TOKEN_PRINT"
                 [] i % 3 = 2 -> "TOKEN_NUMBER"
                 [] OTHER     -> "TOKEN_SEMICOLON"])

\* print 1 + 1 + ... + 1 ; with n numbers
LongSum(n) ==
    Stream(<<"TOKEN_PRINT">> \o
           [i \in 1 .. 2 * n - 1 |->
               IF i % 2 = 1 THEN "TOKEN_NUMBER" ELSE "TOKEN_PLUS"] \o
           <<"TOKEN_SEMICOLON">>)

\* print ( - 1 ) ;
SourceGrouping ==
    <<Tk("TOKEN_PRINT", 1), Tk("TOKEN_LEFT_PAREN", 1), Tk("TOKEN_MINUS", 1),
      Num(1, 1), Tk("TOKEN_RIGHT_PAREN", 1), Tk("TOKEN_SEMICOLON", 1)>>

\* the numbers of constants tried around the limit of a one-byte operand
ConstantCounts == UINT8_MAX .. UINT8_MAX + 1 + ExtraConstants

\* sources with about UINT8_MAX + 1 constants, with and without a scanner
\* error in front, next to the short scenarios
LongSources ==
    {ManyPrints(n) : n \in ConstantCounts}
    \cup {LongSum(n) : n \in ConstantCounts}
    \cup {<<Tk("TOKEN_ERROR", 0)>> \o ManyPrints(n) : n \in ConstantCounts}
    \cup Scenarios \cup {SourceGrouping} \cup {s \in ShortSources : Len(s) <= 2}

LongInit ==
    /\ heap = <<>>
    /\ buffers = <<>>
    /\ objects = <<>>
    /\ strings = initTable
    /\ table = initTable
    /\ abs = [k \in Keys |-> Absent]
    /\ lastOp = NoOp
    /\ CompilerIdle
    /\ source \in LongSources

LongSpec == LongInit /\ [][CompileNext]_vars

\* the sources compiled with the flags of an earlier, failed compile still
\* set in the global Parser
SourcesAfterErrors == {s \in ShortSources : Len(s) <= 2} \cup Scenarios

\* the state of the compiler after a compile that reported an error
CompilerIdleAfterErrors ==
    /\ scanner = 1
    /\ parser = [current |-> ZeroToken, previous |-> ZeroToken,
                 hadError |-> TRUE, panicMode |-> TRUE]
    /\ chunk = initChunk
    /\ frames = <<>>
    /\ status = "idle"
    /\ result = FALSE
    /\ raised = 0
    /\ stderr = <<>>

CompileInit ==
    /\ heap = <<>>
    /\ buffers = <<>>
    /\ objects = <<>>
    /\ strings = initTable
    /\ table = initTable
    /\ abs = [k \in Keys |-> Absent]
    /\ lastOp = NoOp
    /\ \/ CompilerIdle /\ source \in Sources
       \/ CompilerIdleAfterErrors /\ source \in SourcesAfterErrors

CompileSpec == CompileInit /\ [][CompileNext]_vars


----------------------------------------------------------------------------
(* Properties of compile.                                                  *)

\* C8: compile returns for every finite source: while it runs, its next step
\* changes the state (it consumes a token, emits a byte, returns from a call
\* or returns from compile), so the loop over declaration() cannot spin.
CompileMakesProgress ==
    status = "running" => ENABLED <<CompileNext>>_vars


\* C9: every error raised during a compile leaves hadError true for the rest
\* of that compile, and compile returns false exactly when an error was raised.
ErrorsDecideResult ==
    /\ (status # "idle" /\ raised > 0) => parser.hadError
    /\ status = "returned" => (result = FALSE <=> raised > 0)

\* C9 witness: compile returned false after a scanner ERROR token and a
\* parser error, one of them suppressed by panic mode.
ErrorsDecideResultWitness ==
    /\ status = "returned" /\ result = FALSE
    /\ raised >= 2 /\ Len(stderr) = 1
    /\ \E i \in DOMAIN source : source[i].type = "TOKEN_ERROR"
    /\ \E i \in DOMAIN stderr : stderr[i].message # "scan error"

----------------------------------------------------------------------------
(* The expression grammar the compiler is to follow, as trees: equality <  *)
(* comparison < term < factor < unary < primary, binary operators of one   *)
(* level associating to the left.                                          *)

TypeAt(ts, pos) == IF pos <= Len(ts) THEN ts[pos] ELSE "TOKEN_EOF"

\* the binary operators of each level, loosest level first
LevelOps ==
    << {"TOKEN_BANG_EQUAL", "TOKEN_EQUAL_EQUAL"},
       {"TOKEN_GREATER", "TOKEN_GREATER_EQUAL", "TOKEN_LESS", "TOKEN_LESS_EQUAL"},
       {"TOKEN_MINUS", "TOKEN_PLUS"},
       {"TOKEN_SLASH", "TOKEN_STAR"} >>

NoParse == [ok |-> FALSE, pos |-> 0, tree |-> [kind |-> "none"]]
Parsed(pos, tree) == [ok |-> TRUE, pos |-> pos, tree |-> tree]

RECURSIVE RefLevel(_, _, _), RefLevelLoop(_, _, _, _), RefUnary(_, _), RefPrimary(_, _)

\* an expression of level l (1 .. 4), or a unary expression for l = 5
RefLevel(l, ts, pos) ==
    IF l > Len(LevelOps) THEN RefUnary(ts, pos)
    ELSE LET left == RefLevel(l + 1, ts, pos) IN
         IF left.ok THEN RefLevelLoop(l, ts, left.pos, left.tree) ELSE NoParse

\* left (op right)* with the tree growing to the left
RefLevelLoop(l, ts, pos, left) ==
    IF TypeAt(ts, pos) \in LevelOps[l]
    THEN LET right == RefLevel(l + 1, ts, pos + 1) IN
         IF right.ok
         THEN RefLevelLoop(l, ts, right.pos,
                           [kind |-> "binary", op |-> ts[pos], at |-> pos,
                            last |-> right.pos - 1,
                            left |-> left, right |-> right.tree])
         ELSE NoParse
    ELSE Parsed(pos, left)

RefUnary(ts, pos) ==
    IF TypeAt(ts, pos) \in {"TOKEN_BANG", "TOKEN_MINUS"}
    THEN LET operand == RefUnary(ts, pos + 1) IN
         IF operand.ok
         THEN Parsed(operand.pos, [kind |-> "unary", op |-> ts[pos], at |-> pos,
                                   last |-> operand.pos - 1,
                                   operand |-> operand.tree])
         ELSE NoParse
    ELSE RefPrimary(ts, pos)

RefPrimary(ts, pos) ==
    LET t == TypeAt(ts, pos) IN
    IF t \in {"TOKEN_NUMBER", "TOKEN_STRING"}
    THEN Parsed(pos + 1, [kind |-> "constant", at |-> pos])
    ELSE IF t \in {"TOKEN_FALSE", "TOKEN_NIL", "TOKEN_TRUE"}
    THEN Parsed(pos + 1, [kind |-> "literal", op |-> t, at |-> pos])
    ELSE IF t = "TOKEN_LEFT_PAREN"
    THEN LET inner == RefLevel(1, ts, pos + 1) IN
         IF inner.ok /\ TypeAt(ts, inner.pos) = "TOKEN_RIGHT_PAREN"
         THEN Parsed(inner.pos + 1, inner.tree)
         ELSE NoParse
    ELSE NoParse

\* the program: (print expression ;)* EOF, as the sequence of its trees
RECURSIVE RefProgram(_, _, _)
RefProgram(ts, pos, trees) ==
    IF TypeAt(ts, pos) = "TOKEN_EOF" THEN [ok |-> TRUE, trees |-> trees]
    ELSE IF TypeAt(ts, pos) # "TOKEN_PRINT" THEN [ok |-> FALSE, trees |-> <<>>]
    ELSE LET e == RefLevel(1, ts, pos + 1) IN
         IF e.ok /\ TypeAt(ts, e.pos) = "TOKEN_SEMICOLON"
         THEN RefProgram(ts, e.pos + 1, Append(trees, e.tree))
         ELSE [ok |-> FALSE, trees |-> <<>>]

\* the post-order of a tree: [code, consts]; consts lists the positions of
\* the constant tokens met so far, a constant's operand being its index there
RECURSIVE PostOrder(_, _)
PostOrder(tree, consts) ==
    CASE tree.kind = "constant" ->
            [code |-> <<OP_CONSTANT, Len(consts)>>, consts |-> Append(consts, tree.at)]
      [] tree.kind = "literal" ->
            [code |-> LiteralBytes(tree.op), consts |-> consts]
      [] tree.kind = "unary" ->
            LET o == PostOrder(tree.operand, consts) IN
            [code |-> o.code \o UnaryBytes(tree.op), consts |-> o.consts]
      [] tree.kind = "binary" ->
            LET l == PostOrder(tree.left, consts)
                r == PostOrder(tree.right, l.consts)
            IN [code |-> l.code \o r.code \o BinaryBytes(tree.op), consts |-> r.consts]

RECURSIVE PostOrderAll(_, _, _, _)
PostOrderAll(trees, i, code, consts) ==
    IF i > Len(trees) THEN [code |-> code \o <<OP_RETURN>>, consts |-> consts]
    ELSE LET p == PostOrder(trees[i], consts) IN
         PostOrderAll(trees, i + 1, code \o p.code \o <<OP_PRINT>>, p.consts)

TypesOf(src) == [i \in DOMAIN src |-> src[i].type]

WellFormed(src) == RefProgram(TypesOf(src), 1, <<>>).ok

Expected(src) == PostOrderAll(RefProgram(TypesOf(src), 1, <<>>).trees, 1, <<>>, <<>>)

\* constant i of the chunk is the value of the i-th constant token
ConstantIs(value, token) ==
    IF token.type = "TOKEN_NUMBER" THEN value = NUMBER_VAL(token.number)
    ELSE /\ value.type = "VAL_OBJ"
         /\ value.obj \in DOMAIN heap
         /\ heap[value.obj].chars = token.chars

\* the numbers a chunk of arithmetic prints when the VM runs it
RECURSIVE Run(_, _, _, _, _)
Run(code, constants, ip, stack, out) ==
    LET n == Len(stack)
        op == code[ip]
        Binary(v) == Run(code, constants, ip + 1,
                         Append(SubSeq(stack, 1, n - 2), v), out)
    IN CASE op = OP_RETURN -> out
         [] op = OP_CONSTANT ->
                Run(code, constants, ip + 2,
                    Append(stack, constants[code[ip + 1] + 1].number), out)
         [] op = OP_ADD -> Binary(stack[n - 1] + stack[n])
         [] op = OP_SUBTRACT -> Binary(stack[n - 1] - stack[n])
         [] op = OP_MULTIPLY -> Binary(stack[n - 1] * stack[n])
         [] op = OP_NEGATE ->
                Run(code, constants, ip + 1,
                    Append(SubSeq(stack, 1, n - 1), 0 - stack[n]), out)
         [] op = OP_PRINT ->
                Run(code, constants, ip + 1, SubSeq(stack, 1, n - 1),
                    Append(out, stack[n]))

\* C10: for a well-formed source the emitted bytecode is the post-order of
\* the tree in which higher-precedence operators bind tighter and operators
\* of equal precedence associate to the left; print 1 + 2 * 3; emits
\* CONSTANT 1, CONSTANT 2, CONSTANT 3, MULTIPLY, ADD (7) and print 10 - 3 - 2;
\* emits CONSTANT 10, CONSTANT 3, SUBTRACT, CONSTANT 2, SUBTRACT (5).
BytecodeIsPostOrder ==
    /\ (status = "returned" /\ WellFormed(source)) =>
           LET e == Expected(source) IN
           /\ result
           /\ chunk.code = e.code
           /\ Len(chunk.constants) = Len(e.consts)
           /\ \A i \in DOMAIN e.consts :
                  ConstantIs(chunk.constants[i], source[e.consts[i]])
    /\ (status = "returned" /\ source = SourceArithmetic) =>
           /\ chunk.code = <<OP_CONSTANT, 0, OP_CONSTANT, 1, OP_CONSTANT, 2,
                             OP_MULTIPLY, OP_ADD, OP_PRINT, OP_RETURN>>
           /\ chunk.constants = <<NUMBER_VAL(1), NUMBER_VAL(2), NUMBER_VAL(3)>>
           /\ Run(chunk.code, chunk.constants, 1, <<>>, <<>>) = <<7>>
    /\ (status = "returned" /\ source = SourceLeftAssoc) =>
           /\ chunk.code = <<OP_CONSTANT, 0, OP_CONSTANT, 1, OP_SUBTRACT,
                             OP_CONSTANT, 2, OP_SUBTRACT, OP_PRINT, OP_RETURN>>
           /\ chunk.constants = <<NUMBER_VAL(10), NUMBER_VAL(3), NUMBER_VAL(2)>>
           /\ Run(chunk.code, chunk.constants, 1, <<>>, <<>>) = <<5>>

\* C10 witness: compile returned for print 1 - 1 * 1 - 1; -- two operators of
\* one precedence around one that binds tighter.
BytecodeIsPostOrderWitness ==
    /\ status = "returned" /\ result
    /\ TypesOf(source) = <<"TOKEN_PRINT", "TOKEN_NUMBER", "TOKEN_MINUS",
                           "TOKEN_NUMBER", "TOKEN_STAR", "TOKEN_NUMBER",
                           "TOKEN_MINUS", "TOKEN_NUMBER", "TOKEN_SEMICOLON">>
    /\ chunk.code = <<OP_CONSTANT, 0, OP_CONSTANT, 1, OP_CONSTANT, 2, OP_MULTIPLY,
                      OP_SUBTRACT, OP_CONSTANT, 3, OP_SUBTRACT, OP_PRINT, OP_RETURN>>


----------------------------------------------------------------------------
(* Properties of the chunk.                                                *)

\* decoding at most k instructions of code from offset ip on: [ip, operands],
\* the operands of the OP_CONSTANT instructions appended in order
RECURSIVE DecodeSome(_, _, _, _)
DecodeSome(code, ip, operands, k) ==
    IF ip > Len(code) \/ k = 0 THEN [ip |-> ip, operands |-> operands]
    ELSE IF code[ip] = OP_CONSTANT
         THEN DecodeSome(code, ip + 2,
                         Append(operands, IF ip < Len(code) THEN code[ip + 1] ELSE -1),
                         k - 1)
         ELSE DecodeSome(code, ip + 1, operands, k - 1)

\* the operands of the OP_CONSTANT instructions of code, in order
RECURSIVE ConstantOperands(_, _, _)
ConstantOperands(code, ip, operands) ==
    IF ip > Len(code) THEN operands
    ELSE LET d == DecodeSome(code, ip, operands, 32) IN
         ConstantOperands(code, d.ip, d.operands)

TooManyMessage == "Too many constants in one chunk."

\* C11: every OP_CONSTANT operand is an index into the chunk's constants; a
\* compile that adds more than 256 constants raises "Too many constants in
\* one chunk." and returns false, so a chunk compiled with success has the
\* i-th constant as the operand of its i-th OP_CONSTANT, none of them wrapped
\* around from an index above 255.
ConstantPoolGuard ==
    LET operands == ConstantOperands(chunk.code, 1, <<>>)
        n == Len(chunk.constants)
    IN /\ \A i \in DOMAIN operands : operands[i] >= 0 /\ operands[i] < n
       /\ n > UINT8_MAX + 1 =>
              /\ parser.hadError /\ raised > 0 /\ Len(stderr) = 1
              /\ stderr[1].message # TooManyMessage =>
                     \E i \in DOMAIN source : source[i].type = "TOKEN_ERROR"
              /\ status = "returned" => result = FALSE
       /\ (status = "returned" /\ result) =>
              /\ n <= UINT8_MAX + 1
              /\ operands = [i \in 1 .. n |-> i - 1]

\* C11 witness: compile returned false for a source of print statements with
\* 257 constants, with the one message of makeConstant.
ConstantPoolGuardWitness ==
    /\ status = "returned" /\ result = FALSE
    /\ Len(chunk.constants) = UINT8_MAX + 2
    /\ Len(stderr) = 1 /\ stderr[1].message = TooManyMessage
    /\ ConstantOperands(chunk.code, 1, <<>>)[UINT8_MAX + 2] = 0


\* the line of token pos of src, the EOF token following the last one
LineOf(src, pos) == IF pos <= Len(src) THEN src[pos].line ELSE Len(src) + 1

Repeat(x, n) == [i \in 1 .. n |-> x]

\* for each byte of the post-order of a tree, the positions of the tokens
\* that may account for it: an operator's bytes go to the operator token
\* (byLast false) or to the last token of its operand (byLast true)
RECURSIVE Emitters(_, _)
Emitters(tree, byLast) ==
    LET opAt == {IF byLast THEN tree.last ELSE tree.at} IN
    CASE tree.kind = "constant" -> <<{tree.at}, {tree.at}>>
      [] tree.kind = "literal" -> Repeat({tree.at}, Len(LiteralBytes(tree.op)))
      [] tree.kind = "unary" ->
            Emitters(tree.operand, byLast) \o Repeat(opAt, Len(UnaryBytes(tree.op)))
      [] tree.kind = "binary" ->
            Emitters(tree.left, byLast) \o Emitters(tree.right, byLast)
                \o Repeat(opAt, Len(BinaryBytes(tree.op)))

\* the same for a program: OP_PRINT goes to a token of its statement (print
\* or ';' when byLast is false, the ';' when it is true), OP_RETURN to EOF
RECURSIVE ProgramEmitters(_, _, _, _)
ProgramEmitters(ts, pos, acc, byLast) ==
    IF TypeAt(ts, pos) # "TOKEN_PRINT" THEN Append(acc, {pos})
    ELSE LET e == RefLevel(1, ts, pos + 1) IN
         ProgramEmitters(ts, e.pos + 1,
                         acc \o Emitters(e.tree, byLast)
                             \o <<IF byLast THEN {e.pos} ELSE {pos, e.pos}>>,
                         byLast)

\* chunk.lines is, byte for byte, a line of the tokens named by emitters
LinesFollow(emitters) ==
    /\ Len(chunk.lines) = Len(emitters)
    /\ \A i \in DOMAIN emitters :
           \E pos \in emitters[i] : chunk.lines[i] = LineOf(source, pos)

CompileSucceeded == status = "returned" /\ result

\* C12 as stated: after a successful compile lines[i] is the line of the
\* token that emitted code[i], an operator's opcode carrying the line of the
\* operator token even when its operand ends on a later line.
LinesOfEmittingTokens ==
    CompileSucceeded =>
        /\ WellFormed(source)
        /\ Len(chunk.lines) = Len(chunk.code)
        /\ LinesFollow(ProgramEmitters(TypesOf(source), 1, <<>>, FALSE))

\* C12 amended: after a successful compile lines[i] is the line of the last
\* token consumed when code[i] was written: its own token for a constant or
\* literal, the last token of the (right) operand for a unary or binary
\* operator, the ';' for OP_PRINT and the EOF token for OP_RETURN.
LinesOfPreviousTokens ==
    CompileSucceeded =>
        /\ WellFormed(source)
        /\ Len(chunk.lines) = Len(chunk.code)
        /\ LinesFollow(ProgramEmitters(TypesOf(source), 1, <<>>, TRUE))

\* C12 witness: print 1 - 1 ; with one token per line compiled with success;
\* OP_SUBTRACT carries line 4 of the right operand, not line 3 of the '-'.
LinesOfPreviousTokensWitness ==
    /\ CompileSucceeded
    /\ source = Stream(<<"TOKEN_PRINT", "TOKEN_NUMBER", "TOKEN_MINUS",
                         "TOKEN_NUMBER", "TOKEN_SEMICOLON">>)
    /\ chunk.code = <<OP_CONSTANT, 0, OP_CONSTANT, 1, OP_SUBTRACT, OP_PRINT, OP_RETURN>>
    /\ chunk.lines = <<2, 2, 4, 4, 4, 5, 6>>


----------------------------------------------------------------------------
(* Properties of the heap.                                                 *)

\* the number of times object id occurs in the chain from vm.objects
Occurrences(id) == Cardinality({i \in DOMAIN objects : objects[i] = id})

\* a copyString/takeString call that found the string interned
InternHit(op) == op.op \in {"copyString", "takeString"} /\ op.ret

\* C13: every allocated object occurs exactly once in the chain from
\* vm.objects, the chain runs from the newest object to the oldest, and a
\* copyString/takeString call that hits an interned string adds no node.
ObjectChainComplete ==
    /\ [](/\ \A id \in DOMAIN heap : Occurrences(id) = 1
          /\ \A i \in DOMAIN objects : objects[i] \in DOMAIN heap
          /\ \A i, j \in DOMAIN objects : i < j => objects[i] > objects[j])
    /\ [][InternHit(lastOp') => (objects' = objects /\ heap' = heap)]_vars

\* C13 witness: a call hit an interned string with three objects in the chain.
ObjectChainCompleteWitness ==
    /\ InternHit(lastOp)
    /\ objects = <<3, 2, 1>>


----------------------------------------------------------------------------
(* Properties of single calls on the table.                                *)

\* the buckets of t that hold key k
BucketsOf(t, k) == {i \in Buckets(t) : t.entries[i].key = k}

\* C14: tableSet(t, k, v) returns true exactly when k was not a Live key of
\* t before the call; on a Live key it returns false, puts v into that key's
\* bucket and, unless the load check made the table grow, leaves count,
\* capacity and every other bucket as they were.
SetReturnsNewKey ==
    [][lastOp'.op = "set" =>
          LET k == lastOp'.key
              wasLive == BucketsOf(table, k) # {}
          IN /\ lastOp'.ret <=> ~wasLive
             /\ tableGet(table', k, heap) = [found |-> TRUE, value |-> lastOp'.value]
             /\ (wasLive /\ ~lastOp'.grew) =>
                    /\ table'.count = table.count
                    /\ table'.capacity = table.capacity
                    /\ \A i \in Buckets(table) :
                           IF table.entries[i].key = k
                           THEN table'.entries[i] = [key |-> k, value |-> lastOp'.value]
                           ELSE table'.entries[i] = table.entries[i]]_vars

\* C14 witness: a tableSet on a Live key returned false without a resize, in
\* a table that holds another Live key and a tombstone.
SetReturnsNewKeyWitness ==
    /\ lastOp.op = "set" /\ ~lastOp.ret /\ ~lastOp.grew
    /\ Cardinality(LiveBuckets(table)) >= 2
    /\ TombstoneBuckets(table) # {}

\* C15: tableDelete(t, k) on a Live key returns true and turns exactly that
\* key's bucket into a Tombstone (key NULL, value true), count, capacity and
\* every other bucket staying as they were; on a key that is not Live, the
\* empty table included, it returns false and leaves the table unchanged.
DeleteLeavesTombstone ==
    [][lastOp'.op = "delete" =>
          LET k == lastOp'.key
              wasLive == BucketsOf(table, k) # {}
          IN /\ lastOp'.ret <=> wasLive
             /\ ~wasLive => table' = table
             /\ wasLive =>
                    /\ table'.count = table.count
                    /\ table'.capacity = table.capacity
                    /\ Cardinality(BucketsOf(table, k)) = 1
                    /\ \A i \in Buckets(table) :
                           IF table.entries[i].key = k
                           THEN table'.entries[i] = [key |-> NULL, value |-> TRUE_VAL]
                           ELSE table'.entries[i] = table.entries[i]]_vars

\* C15 witness: a tableDelete returned true in a table that keeps a Live key
\* and held a tombstone already.
DeleteLeavesTombstoneWitness ==
    /\ lastOp.op = "delete" /\ lastOp.ret
    /\ Cardinality(TombstoneBuckets(table)) >= 2
    /\ LiveBuckets(table) # {}


\* the Strings whose chars field points to the array buf
Owners(H, buf) == {s \in DOMAIN H : H[s].buf = buf}

\* C16: takeString on an interning hit frees the caller's array exactly once,
\* returns the interned String with those bytes and leaves vm.strings and
\* the object chain unchanged; on a miss the array is not freed and becomes
\* the chars of exactly one String, the new one, registered in the chain and
\* in vm.strings.  No array is ever both freed and referenced by a String.
TakeStringOwnsBuffer ==
    /\ [](\A buf \in DOMAIN buffers :
              /\ buffers[buf].freed <= 1
              /\ Cardinality(Owners(heap, buf)) <= 1
              /\ buffers[buf].freed > 0 => Owners(heap, buf) = {})
    /\ [][lastOp'.op = "takeString" =>
              LET buf == Len(buffers) + 1
                  chars == lastOp'.chars
                  ret == lastOp'.key
              IN IF lastOp'.ret
                 THEN /\ buffers' = Append(buffers, [chars |-> chars, freed |-> 1])
                      /\ ret \in InternedKeys /\ heap[ret].chars = chars
                      /\ strings' = strings /\ objects' = objects /\ heap' = heap
                 ELSE /\ buffers' = Append(buffers, [chars |-> chars, freed |-> 0])
                      /\ Owners(heap', buf) = {ret}
                      /\ DOMAIN heap' = DOMAIN heap \cup {ret} /\ ret \notin DOMAIN heap
                      /\ objects' = <<ret>> \o objects
                      /\ ret \in InternedKeys']_vars

\* C16 witness: a takeString call hit a String that an earlier call had
\* created, with two Strings on the heap; the caller's array is freed.
TakeStringOwnsBufferWitness ==
    /\ lastOp.op = "takeString" /\ lastOp.ret
    /\ buffers[Len(buffers)].freed = 1
    /\ heap[lastOp.key].buf < Len(buffers)
    /\ Len(heap) >= 2


\* C17: a String's hash field holds the FNV-1a hash of its bytes from its
\* creation on: the hash field that tableSet reads when allocateString
\* inserts the new String is the hash of its bytes, so that every String of
\* vm.strings sits where the probe from hash % capacity gets to it without
\* meeting an Empty bucket.
HashSetBeforeInsert ==
    /\ lastOp.op \in {"copyString", "takeString"} =>
           lastOp.keyHash = hashString(lastOp.chars)
    /\ \A s \in DOMAIN heap : heap[s].hash = hashString(heap[s].chars)
    /\ \A i \in LiveBuckets(strings) :
           \A j \in ProbePrefix(strings, i, heap) : ~IsEmpty(strings.entries[j])


----------------------------------------------------------------------------
(* Properties of the compiler's error reports and of the statements.       *)

\* C18: within one compile the first error raised sets panicMode and is
\* reported, and every later error is suppressed: at most one message per
\* compile, and panicMode, once true, stays true to the end of the compile;
\* compile starts with panicMode reset, whatever an earlier compile left.
PanicModeOneMessage ==
    /\ [](status # "idle" =>
              /\ Len(stderr) <= 1
              /\ parser.panicMode <=> raised > 0
              /\ Len(stderr) = 1 <=> raised > 0)
    /\ [][(status # "idle" /\ parser.panicMode) =>
              (parser'.panicMode /\ stderr' = stderr)]_vars

\* C18 witness: compile returned after two errors, the first one ("Expect
\* expression.") reported and the second one suppressed.
PanicModeOneMessageWitness ==
    /\ status = "returned"
    /\ raised = 2
    /\ parser.panicMode
    /\ Len(stderr) = 1 /\ stderr[1].message = "Expect expression."


\* decoding at most k instructions of code from offset ip on: [ip, count],
\* count going up with every OP_RETURN instruction
RECURSIVE CountSome(_, _, _, _)
CountSome(code, ip, count, k) ==
    IF ip > Len(code) \/ k = 0 THEN [ip |-> ip, count |-> count]
    ELSE IF code[ip] = OP_CONSTANT THEN CountSome(code, ip + 2, count, k - 1)
         ELSE CountSome(code, ip + 1,
                        IF code[ip] = OP_RETURN THEN count + 1 ELSE count, k - 1)

\* the number of OP_RETURN instructions of code
RECURSIVE ReturnCount(_, _, _)
ReturnCount(code, ip, count) ==
    IF ip > Len(code) THEN count
    ELSE LET d == CountSome(code, ip, count, 32) IN ReturnCount(code, d.ip, d.count)

\* C19: when compile has returned, with or without errors, the last byte of
\* the chunk is OP_RETURN and the chunk holds one OP_RETURN instruction,
\* written after the EOF token was matched; before that it holds none.
ReturnEndsChunk ==
    LET returns == ReturnCount(chunk.code, 1, 0) IN
    IF status = "returned"
    THEN /\ chunk.code # <<>>
         /\ chunk.code[Len(chunk.code)] = OP_RETURN
         /\ returns = 1
         /\ parser.previous.type = "TOKEN_EOF"
         /\ chunk.lines[Len(chunk.lines)] = parser.previous.line
    ELSE returns = 0

\* C19 witness: compile returned with errors and with a chunk in which an
\* operand has the value of OP_RETURN.
ReturnEndsChunkWitness ==
    /\ status = "returned" /\ result = FALSE
    /\ \E i \in 1 .. Len(chunk.code) - 1 : chunk.code[i] = OP_RETURN

\* C20: OP_PRINT is written by printStatement once expression() has returned
\* and the test for the ';' has run: the ';' was consumed, or its absence was
\* raised as an error, in the step that appends OP_PRINT, which therefore
\* carries the line of the token that is then the previous one.
PrintAfterSemicolon ==
    [][chunk'.code = Append(chunk.code, OP_PRINT) =>
          /\ Running("printStatement")
          /\ IF parser.current.type = "TOKEN_SEMICOLON"
             THEN parser'.previous = parser.current
             ELSE /\ raised' = raised + 1
                  /\ parser'.hadError
                  /\ parser'.previous = parser.previous
                  /\ parser'.current = parser.current
          /\ chunk'.lines = Append(chunk.lines, parser'.previous.line)]_vars

\* C20 witness: a successful compile whose OP_PRINT carries the line of the
\* ';', a later line than that of the expression's last byte.
PrintAfterSemicolonWitness ==
    /\ CompileSucceeded
    /\ \E i \in 2 .. Len(chunk.code) :
           /\ chunk.code[i] = OP_PRINT
           /\ chunk.lines[i] > chunk.lines[i - 1]
           /\ chunk.lines[i] \in DOMAIN source
           /\ source[chunk.lines[i]].type = "TOKEN_SEMICOLON"
           /\ source[chunk.lines[i]].line = chunk.lines[i]


(***************************************************************************)
(* Properties of the bucket array as a whole.                              *)

\* C21: no key is stored in two buckets of the same table, neither in the
\* table after a tableSet or tableDelete nor in the array adjustCapacity has
\* just built; after tableSet(t, k, v) the key k sits in exactly one bucket,
\* also when its bucket lies beyond a tombstone on its probe path.
NoKeyInTwoBuckets ==
    /\ \A k \in Keys : Cardinality(BucketsOf(table, k)) <= 1
    /\ lastOp.grew => \A k \in Keys : Cardinality(BucketsOf(lastOp.mid, k)) <= 1
    /\ lastOp.op = "set" => Cardinality(BucketsOf(table, lastOp.key)) = 1

\* C21 witness: a tableSet without resize on a key that was already Live and
\* whose bucket lies beyond a tombstone on its probe path.
NoKeyInTwoBucketsWitness ==
    /\ lastOp.op = "set" /\ ~lastOp.ret /\ ~lastOp.grew
    /\ \E i \in BucketsOf(table, lastOp.key) :
           \E j \in ProbePrefix(table, i, heap) : IsTombstone(table.entries[j])

\* every string of KeyChars with its hash, in the table or not
ProbeStrings == [n \in DOMAIN KeyChars |-> ObjStringOf(KeyChars[n], n)]

\* the buckets of t that are not Empty
UsedBuckets(t) == LiveBuckets(t) \cup TombstoneBuckets(t)

\* C22: a table with capacity 0 has count 0, so that tableGet, tableDelete
\* and tableFindString return before probing, and tableSet grows it before
\* probing; a table with capacity > 0 has fewer Live and Tombstone buckets
\* than count says at most, count below capacity, and so an Empty bucket;
\* the probes of findEntry, for every key, and of tableFindString, for every
\* string, in the table or not, end within capacity steps.  The same holds
\* of the array adjustCapacity has just built.
EmptyBucketRemains ==
    /\ table.capacity = 0 => table.count = 0 /\ NeedsGrow(table)
    /\ table.capacity > 0 =>
          /\ Cardinality(UsedBuckets(table)) <= table.count
          /\ table.count < table.capacity
          /\ EmptyBuckets(table) # {}
          /\ \A k \in Keys :
                 findEntry(table.entries, table.capacity, k, heap) # Diverges
          /\ \A n \in DOMAIN ProbeStrings :
                 tableFindString(table, ProbeStrings[n].chars,
                                 ProbeStrings[n].hash, heap) # Diverges
    /\ lastOp.grew =>
          /\ lastOp.mid.capacity > 0
          /\ EmptyBuckets(lastOp.mid) # {}
          /\ findEntry(lastOp.mid.entries, lastOp.mid.capacity,
                       lastOp.key, heap) # Diverges

\* C22 witness: after deletes, a table at the point where the next tableSet
\* must grow it holds two tombstones at least, and the probe for a key that
\* is not in the table starts on a tombstone.
EmptyBucketRemainsWitness ==
    /\ lastOp.op = "delete" /\ lastOp.ret
    /\ Cardinality(TombstoneBuckets(table)) >= 2
    /\ NeedsGrow(table)
    /\ \E k \in Keys :
           /\ BucketsOf(table, k) = {}
           /\ IsTombstone(table.entries[HashMod(heap[k].hash, table.capacity)])

(***************************************************************************)
(* The infix rules that parsePrecedence calls.                             *)

\* C23: parsePrecedence never calls a NULL infix rule: every call of
\* parsePrecedence has a precedence from PREC_ASSIGNMENT to PREC_UNARY,
\* every token type with a precedence above PREC_NONE has an infix rule, and
\* so whenever the loop condition holds the current token has one.
InfixRuleNeverNull ==
    /\ status # "crashed"
    /\ \A i \in 1 .. Len(frames) :
           frames[i].fn = "parsePrecedence" =>
               frames[i].prec \in PREC_ASSIGNMENT .. PREC_UNARY
    /\ \A t \in TokenTypes :
           getRule(t).precedence > PREC_NONE => getRule(t).infix # "NULL"
    /\ (/\ Running("parsePrecedence") /\ Top.pc = "loop"
        /\ Top.prec <= getRule(parser.current.type).precedence)
           => getRule(parser.current.type).infix # "NULL"

\* C23 witness: the parsePrecedence(PREC_UNARY) that binary() called for the
\* right operand of a '*' or '/' tests its loop condition on a token that
\* has no infix rule and does not end the statement.
InfixRuleNeverNullWitness ==
    /\ Running("parsePrecedence") /\ Top.pc = "loop" /\ Top.prec = PREC_UNARY
    /\ Len(frames) >= 2 /\ frames[Len(frames) - 1].fn = "binary"
    /\ getRule(parser.current.type).infix = "NULL"
    /\ parser.current.type \notin {"TOKEN_SEMICOLON", "TOKEN_EOF"}

====
